---- MODULE Spec2Model ----
(***************************************************************************)
(* Token lifecycle (register / login / refresh / logout over the session   *)
(* cache) and payment-webhook driven subscription state of recipe-be.      *)
(*                                                                         *)
(* Two specifications share the variables:                                 *)
(*   SpecAuth  the auth controller's handlers, one action per await point, *)
(*             run by MaxProcs concurrent requests, plus the clock;        *)
(*   SpecPay   PaymentService.subscribeUser / cancelSubscription and the   *)
(*             webhook entry point with its handlers.                      *)
(*                                                                         *)
(* A user document is identified with its email (unique index): document   *)
(* id u has email u.  Register requests of this model carry a phone, so    *)
(* the phone branch of login's $or filter matches nobody else.             *)
(***************************************************************************)
EXTENDS Integers, Sequences, FiniteSets, TLC

\* ---------------------------------------------------------------- bounds
MaxUsers == 2
MaxProcs == 2
MaxTime == 1
MaxSubs == 1
MaxMarkers == 2
MaxTs == 2

UserIds == 1..MaxUsers
Procs == 1..MaxProcs
Times == 0..MaxTime
Passwords == {"pw1"}
WrongPassword == "pw2"

\* ------------------------------------------------------- token primitives
NoEmail == 0
NoPhone == 0
NoPassword == "none"

\* process.env.JWT_EXPIRE / JWT_REFRESH_EXPIRE, in clock ticks
AccessExpire == 1
RefreshExpire == 2
\* TTL of the session-cache entry, in clock ticks
RefreshTtl == 1

AccessSecret == "JWT_SECRET"
RefreshSecret == "JWT_REFRESH_SECRET"

NoToken == [sig |-> "none", id |-> 0, iat |-> 0]

\* jwt.sign(payload, secret, {expiresIn}): HS256 is deterministic, so the token
\* string is a function of the payload (id; email and role follow from id),
\* the secret and the issue time iat.
JwtSign(id, secret, t) == [sig |-> secret, id |-> id, iat |-> t]

Expire(secret) == IF secret = AccessSecret THEN AccessExpire ELSE RefreshExpire

\* a verify that checks the expiry but accepts a signature made with either
\* secret
JwtVerifyAnySecret(tok, secret, t) ==
  tok.sig \in {AccessSecret, RefreshSecret} /\ t < tok.iat + Expire(secret)

\* jwt.verify(token, secret): the signature must be the secret's and the
\* token unexpired; otherwise it throws.
JwtVerify(tok, secret, t) == tok.sig = secret /\ t < tok.iat + Expire(secret)

generateAuthToken(u, t) == JwtSign(u, AccessSecret, t)

generateRefreshToken(u, t) == JwtSign(u, RefreshSecret, t)

\* bcrypt.hash / bcrypt.compare (the salt is left out)
Hash(pw) == <<"bcrypt", pw>>

\* a stored string that is the given value itself, unhashed
Plain(v) == <<"plain", v>>

\* crypto.createHash('sha256').update(v).digest('hex')
Sha256(v) == <<"sha256", v>>

\* bcrypt.hash of a stored password value: of a password as supplied, its
\* hash; of what is already a hash, a hash of that hash, which no password
\* compares equal to
HashValue(v) ==
  IF v[1] = "plain" THEN Hash(v[2]) ELSE <<"bcrypt(" \o v[1] \o ")", v[2]>>

\* a pre-save hook that hashes the password on every save
preSaveAlways(doc, passwordModified) == [doc EXCEPT !.password = HashValue(@)]

\* userSchema.pre('save'), lines 175-181: the password is hashed only when
\* the save modifies it
preSave(doc, passwordModified) ==
  IF ~passwordModified THEN doc ELSE [doc EXCEPT !.password = HashValue(@)]

\* an unset String path of a document
NoHash == <<"none", "">>

\* the value crypto.randomBytes(20).toString('hex') yields
RandomValue == "r1"

\* Date.now() + 24 * 60 * 60 * 1000, in clock ticks
VerificationExpire == 1

comparePassword(candidate, stored) == stored = Hash(candidate)

\* auth.controller.js requires User, asyncHandler, ErrorResponse, emailService
\* and authService only: the identifiers jwt and crypto it uses are unbound,
\* and user.model.js uses crypto without requiring it.
ControllerHasJwt == FALSE

ModelHasCrypto == FALSE

ControllerHasCrypto == FALSE

\* userSchema.methods defines comparePassword, generateAuthToken,
\* generateRefreshToken and generateEmailVerificationToken only: the
\* generatePasswordResetToken that forgotPassword calls does not exist.
ModelHasPasswordResetToken == FALSE

\* ------------------------------------------------------------- documents
\* userSchema.subscription.status: enum, default 'free'
Statuses == {"free", "premium", "cancelled"}

\* userSchema.role: enum, default 'user'
Roles == {"user", "chef", "admin"}

NoUser ==
  [exists |-> FALSE, password |-> Hash(NoPassword), role |-> "user",
   isActive |-> TRUE, lastActive |-> 0, status |-> "free", autoRenew |-> TRUE,
   hasPhone |-> FALSE, emailVerified |-> FALSE,
   emailVerificationToken |-> NoHash, emailVerificationExpire |-> 0,
   passwordResetToken |-> NoHash, passwordResetExpire |-> 0]

\* a create whose password path is stored as supplied
NewUserPlain(pw, t) ==
  [NoUser EXCEPT !.exists = TRUE, !.password = Plain(pw), !.lastActive = t]

\* User.create({name, email, phone, password}) with the schema defaults and
\* the pre-save hook hashing the password.  The phone of user u, when the
\* document has one (hasPhone), is u, as its email is.
NewUser(pw, t) ==
  [exists |-> TRUE, password |-> Hash(pw), role |-> "user",
   isActive |-> TRUE, lastActive |-> t, status |-> "free", autoRenew |-> TRUE,
   hasPhone |-> TRUE, emailVerified |-> FALSE,
   emailVerificationToken |-> NoHash, emailVerificationExpire |-> 0,
   passwordResetToken |-> NoHash, passwordResetExpire |-> 0]

\* ---------------------------------------------------------- session cache
NoEntry == [tok |-> NoToken, exp |-> 0]

\* CacheService.set(key, value, ttl): one redis SET key value EX ttl; a redis
\* error is logged and swallowed (the caller gets false)
CacheSetWrongKey(c, key, value, ttl, t, redisOk) ==
  IF redisOk THEN [k \in DOMAIN c |-> [tok |-> value, exp |-> t + ttl]] ELSE c

CacheSet(c, key, value, ttl, t, redisOk) ==
  IF redisOk THEN [c EXCEPT ![key] = [tok |-> value, exp |-> t + ttl]] ELSE c

\* CacheService.get(key): the value, or null when absent or on a redis error
CacheGet(c, key, redisOk) == IF redisOk THEN c[key].tok ELSE NoToken

\* CacheService.del(key): one redis DEL; a redis error is swallowed
CacheDel(c, key, redisOk) == IF redisOk THEN [c EXCEPT ![key] = NoEntry] ELSE c

\* redis drops an entry when its EX time is reached
CacheExpire(c, t) == [k \in DOMAIN c |-> IF c[k].exp <= t THEN NoEntry ELSE c[k]]

\* authService.storeRefreshToken / getRefreshToken / removeRefreshToken: the
\* session cache's put / get / remove, one cache round trip each, keyed by
\* user id
storeRefreshToken(c, u, tok, t, redisOk) == CacheSet(c, u, tok, RefreshTtl, t, redisOk)

getRefreshToken(c, u, redisOk) == CacheGet(c, u, redisOk)

removeRefreshToken(c, u, redisOk) == CacheDel(c, u, redisOk)

\* ------------------------------------------------------------- responses
\* What a handler hands to res.json or to next(): kind "ok" with the HTTP
\* status, kind "ErrorResponse" with its statusCode, or the kind of an error
\* thrown inside the handler (asyncHandler passes it to next(); it carries
\* no statusCode).
Ok(status) == [kind |-> "ok", status |-> status, msg |-> ""]

Err(status, msg) == [kind |-> "ErrorResponse", status |-> status, msg |-> msg]

Thrown(kind) == [kind |-> kind, status |-> 0, msg |-> ""]

VARIABLES
  users,      \* credential store: user id -> document
  cache,      \* session cache: user id -> entry
  now,        \* clock, in ticks
  procs,      \* in-flight request of each worker
  issued,     \* tokens handed to clients in responses
  loggedOut,  \* per user: a logout completed and no login completed since
  lastResp,   \* the response sent by the last step (NoResp: none), with the
              \* cache slot and logout flag of its user at that moment and,
              \* for a middleware that called next(), the id in req.user,
              \* and the :token path parameter of verifyEmail/resetPassword
  subs,       \* subscription ledger: sequence of Subscription documents
  nextCode,   \* next subscription_code the payment gateway hands out
  markers,    \* webhook idempotency markers: event references seen
  appliedTs,  \* per user: newest payload timestamp among applied events
  jobs,       \* in-flight payment operation of each worker
  lastPay,    \* outcome of the payment operation the last step completed
  recipes,    \* recipe store: recipe id -> document
  listCache,  \* cache of getRecipes responses: cache key -> entry
  lastRecipe  \* the response of the last getRecipe or getRecipes request

authVars == <<users, cache, now, procs, issued, loggedOut, lastResp>>

payVars == <<subs, nextCode, markers, appliedTs, jobs, lastPay>>

recipeVars == <<recipes, listCache, lastRecipe>>

vars == <<users, cache, now, procs, issued, loggedOut, lastResp,
          subs, nextCode, markers, appliedTs, jobs, lastPay,
          recipes, listCache, lastRecipe>>

Idle ==
  [op |-> "idle", pc |-> "idle", uid |-> 0, pw |-> NoPassword,
   acc |-> NoToken, ref |-> NoToken, reqEmail |-> NoEmail, reqPhone |-> NoPhone]

NoResp ==
  [op |-> "none", res |-> Ok(0), tok |-> NoToken, access |-> NoToken,
   refresh |-> NoToken, slot |-> NoToken, loggedOut |-> FALSE, user |-> 0,
   value |-> ""]

\* a response to operation op presenting tok, for user u (0: none)
Resp(op, res, tok, access, refresh, u) ==
  [op |-> op, res |-> res, tok |-> tok, access |-> access, refresh |-> refresh,
   slot |-> IF u \in UserIds THEN cache[u].tok ELSE NoToken,
   loggedOut |-> IF u \in UserIds THEN loggedOut[u] ELSE FALSE,
   user |-> 0, value |-> ""]

\* ------------------------------------------------------ payment: values
EventTimes == 1..MaxTs

\* a provider event: type, data.customer.email, data.subscription_code,
\* data.metadata.subscription, and the payload timestamp; the event is its
\* own provider reference
Ev(type, email, code, sub, ts) ==
  [type |-> type, email |-> email, code |-> code, sub |-> sub, ts |-> ts]

NoEvent == Ev("none", 0, 0, FALSE, 0)

\* the events the provider delivers; an email of UserIds is unknown to the
\* store while nobody has registered with it
PayEvents ==
  {Ev("charge.success", 1, 0, TRUE, t) : t \in EventTimes}
  \cup {Ev("charge.success", e, 0, TRUE, MaxTs) : e \in UserIds}
  \cup {Ev("charge.success", 1, 0, FALSE, MaxTs)}
  \cup {Ev("subscription.create", 1, 0, TRUE, MaxTs)}
  \cup {Ev("subscription.disable", NoEmail, c, FALSE, t) :
     c \in 1..MaxSubs, t \in EventTimes}
  \cup {Ev("invoice.payment_failed", 1, 0, FALSE, MaxTs)}
  \cup {Ev("transfer.success", NoEmail, 0, FALSE, MaxTs)}

\* the request body as sent (its JSON text in one of two layouts) and as
\* express.json() hands it to the handlers
Layouts == {"compact", "spaced"}

RawBodies == [ev : PayEvents, layout : Layouts]

JsonParse(raw) == raw.ev

\* JSON.stringify(body): the compact layout, whatever the sender's was
JsonStringify(body) == [ev |-> body, layout |-> "compact"]

ProviderSecret == "PAYSTACK_SECRET_KEY"
Keys == {ProviderSecret, "another key"}

\* crypto.createHmac('sha512', key).update(text).digest('hex')
Hmac(key, text) == [key |-> key, over |-> text]

\* the signatures a sender may put in the header of raw: the provider's
\* over raw itself or over raw in the other layout, and a stranger's
Relayout(raw) ==
  [raw EXCEPT !.layout = IF @ = "compact" THEN "spaced" ELSE "compact"]

SignaturesFor(raw) ==
  {Hmac(ProviderSecret, raw), Hmac(ProviderSecret, Relayout(raw))}
    \cup {Hmac(k, raw) : k \in Keys \ {ProviderSecret}}

\* verifyWebhook, lines 241-248
verifyWebhook(body, signature) ==
  Hmac(ProviderSecret, JsonStringify(body)) = signature

\* Subscription.create({...}), lines 139-148
NewSubscription(u, code) ==
  [user |-> u, code |-> code, status |-> "active", cancelledAt |-> 0]

Min(S) == CHOOSE x \in S : \A y \in S : x <= y

\* Subscription.findOne({user, status: 'active'}): the first match, 0: none
FindActive(ss, u) ==
  LET I == {i \in 1..Len(ss) : ss[i].user = u /\ ss[i].status = "active"}
  IN IF I = {} THEN 0 ELSE Min(I)

\* Subscription.findOne({subscriptionCode}): 0: none
FindByCode(ss, c) ==
  LET I == {i \in 1..Len(ss) : ss[i].code = c}
  IN IF I = {} THEN 0 ELSE Min(I)

\* User.findOne({email}): 0: none
FindByEmail(us, e) == IF e \in UserIds /\ us[e].exists THEN e ELSE 0

\* document.save(): only the paths whose value differs from the loaded one
\* are written; the password is not among them
SaveStatus(doc, ldStatus, ldAuto, status, auto) ==
  preSave([doc EXCEPT !.status = IF status # ldStatus THEN status ELSE @,
                      !.autoRenew = IF auto # ldAuto THEN auto ELSE @],
          FALSE)

NoJob ==
  [op |-> "idle", pc |-> "idle", u |-> 0, ev |-> NoEvent, sub |-> 0, code |-> 0,
   ldStatus |-> "free", ldAuto |-> TRUE, ldSub |-> "none",
   uw |-> 0, lw |-> 0, changed |-> FALSE,
   rawSigOk |-> TRUE, gwOk |-> TRUE]

NoPay ==
  [op |-> "none", outcome |-> "none", u |-> 0, type |-> "none", sub |-> FALSE,
   uw |-> 0, lw |-> 0, changed |-> FALSE,
   rawSigOk |-> TRUE, stale |-> FALSE, was |-> "free", gwOk |-> TRUE]

\* what the operation of job j reports when it ends with outcome: stale,
\* when a newer event than j's had been applied to its user; was, the status
\* the operation found
Done(j, outcome) ==
  [op |-> j.op, outcome |-> outcome, u |-> j.u,
   type |-> j.ev.type, sub |-> j.ev.sub,
   uw |-> j.uw, lw |-> j.lw, changed |-> j.changed,
   rawSigOk |-> j.rawSigOk,
   stale |-> (j.op = "webhook" /\ j.u # 0 /\ j.ev.ts < appliedTs[j.u]),
   was |-> j.ldStatus, gwOk |-> j.gwOk]

\* what a delivery reports that is turned away before any handler runs
Rejected(j, outcome) ==
  [NoPay EXCEPT !.op = j.op, !.outcome = outcome, !.rawSigOk = j.rawSigOk]

\* ------------------------------------------------------ recipes: values
MaxRecipes == 2

MaxViews == 1

RecipeIds == 1..MaxRecipes

\* a Recipe document, with the fields getRecipes and getRecipe read and write
Recipe(premium, published) ==
  [premium |-> premium, published |-> published, views |-> 0]

\* the cache keys of getRecipes, `recipes:${JSON.stringify(req.query)}`: the
\* key of the list request without filters
ListKey == "recipes:{}"

ListKeys == {ListKey}

\* the 300 seconds a cached list lives, in ticks
ListTtl == 1

\* JSON.stringify(response) of getRecipes: the ids of response.data
CachedList(ids) == [sig |-> "list", data |-> ids]

\* no getRecipe or getRecipes request was answered yet
NoRecipeResp ==
  [op |-> "none", res |-> Ok(0), user |-> 0, status |-> "", role |-> "",
   data |-> {}, cached |-> FALSE]

\* a store of published recipes, every second one premium, nothing cached
RecipeIdle ==
  /\ recipes = [r \in RecipeIds |-> Recipe(r % 2 = 0, TRUE)]
  /\ listCache = [k \in ListKeys |-> NoEntry]
  /\ lastRecipe = NoRecipeResp

PayIdle ==
  /\ subs = <<>>
  /\ nextCode = 1
  /\ markers = {}
  /\ appliedTs = [u \in UserIds |-> 0]
  /\ jobs = [w \in Procs |-> NoJob]
  /\ lastPay = NoPay

InitAuth ==
  /\ users = [u \in UserIds |-> NoUser]
  /\ cache = [u \in UserIds |-> NoEntry]
  /\ now = 0
  /\ procs = [p \in Procs |-> Idle]
  /\ issued = {}
  /\ loggedOut = [u \in UserIds |-> FALSE]
  /\ lastResp = NoResp
  /\ PayIdle
  /\ RecipeIdle

\* ---------------------------------------------------------------- clock
Tick ==
  /\ now < MaxTime
  /\ now' = now + 1
  /\ cache' = CacheExpire(cache, now + 1)
  /\ lastResp' = NoResp
  /\ UNCHANGED <<users, procs, issued, loggedOut>>
  /\ UNCHANGED payVars
  /\ listCache' = CacheExpire(listCache, now + 1)
  /\ UNCHANGED <<recipes, lastRecipe>>

\* -------------------------------------------------------------- register
\* register, lines 12-21: findOne({$or: [{email}, {phone}]})
RegisterCheck(p, email, pw) ==
  /\ procs[p] = Idle
  /\ IF users[email].exists
     THEN /\ lastResp' = Resp("register", Err(400, "User already exists"),
                              NoToken, NoToken, NoToken, 0)
          /\ UNCHANGED procs
     ELSE /\ procs' = [procs EXCEPT ![p] =
                         [Idle EXCEPT !.op = "register", !.pc = "create",
                                      !.uid = email, !.pw = pw]]
          /\ lastResp' = NoResp
  /\ UNCHANGED <<users, cache, now, issued, loggedOut>>
  /\ UNCHANGED payVars
  /\ UNCHANGED recipeVars

\* register, lines 24-43: User.create (the unique index rejects a duplicate),
\* then user.generateEmailVerificationToken(), whose crypto.randomBytes
\* throws; the lines after it (save of the token hash, welcome email, whose
\* failure sendEmail rethrows, tokens, storeRefreshToken) run only with
\* crypto bound.
RegisterCreate(p, redisOk, emailOk) ==
  /\ procs[p].op = "register" /\ procs[p].pc = "create"
  /\ LET u == procs[p].uid
         acc == generateAuthToken(u, now)
         ref == generateRefreshToken(u, now)
         doc == NewUser(procs[p].pw, now)
     IN IF users[u].exists
        THEN /\ lastResp' = Resp("register", Thrown("E11000"),
                                 NoToken, NoToken, NoToken, 0)
             /\ UNCHANGED <<users, cache, issued, loggedOut>>
        ELSE IF ~ModelHasCrypto
        THEN /\ users' = [users EXCEPT ![u] = doc]
             /\ lastResp' = Resp("register", Thrown("TypeError"),
                                 NoToken, NoToken, NoToken, u)
             /\ UNCHANGED <<cache, issued, loggedOut>>
        ELSE /\ users' = [users EXCEPT ![u] =
                            [doc EXCEPT !.emailVerificationToken = Sha256(RandomValue),
                                        !.emailVerificationExpire = now + VerificationExpire]]
             /\ IF emailOk
                THEN /\ cache' = storeRefreshToken(cache, u, ref, now, redisOk)
                     /\ issued' = issued \cup {acc, ref}
                     /\ loggedOut' = [loggedOut EXCEPT ![u] = FALSE]
                     /\ lastResp' = Resp("register", Ok(201), NoToken, acc, ref, u)
                ELSE /\ lastResp' = Resp("register", Thrown("EmailError"),
                                         NoToken, NoToken, NoToken, u)
                     /\ UNCHANGED <<cache, issued, loggedOut>>
  /\ procs' = [procs EXCEPT ![p] = Idle]
  /\ UNCHANGED now
  /\ UNCHANGED payVars
  /\ UNCHANGED recipeVars

\* ----------------------------------------------------------------- login
\* login, lines 69-90: validation, findOne(...).select('+password'),
\* comparePassword on the loaded document
LoginFind(p, email, pw) ==
  /\ procs[p] = Idle
  /\ IF email = NoEmail \/ pw = NoPassword
     THEN /\ lastResp' = Resp("login", Err(400, "Please provide email/phone and password"),
                              NoToken, NoToken, NoToken, 0)
          /\ UNCHANGED procs
     ELSE IF ~users[email].exists
     THEN /\ lastResp' = Resp("login", Err(401, "Invalid credentials"),
                              NoToken, NoToken, NoToken, 0)
          /\ UNCHANGED procs
     ELSE IF ~comparePassword(pw, users[email].password)
     THEN /\ lastResp' = Resp("login", Err(401, "Invalid credentials"),
                              NoToken, NoToken, NoToken, email)
          /\ UNCHANGED procs
     ELSE /\ procs' = [procs EXCEPT ![p] =
                         [Idle EXCEPT !.op = "login", !.pc = "save", !.uid = email]]
          /\ lastResp' = NoResp
  /\ UNCHANGED <<users, cache, now, issued, loggedOut>>
  /\ UNCHANGED payVars
  /\ UNCHANGED recipeVars

\* the documents findOne({$or: [{email}, {phone}]}) matches.  An identifier
\* the request body lacks is undefined in the filter and reaches the store as
\* null: {email: null} matches nobody (email is required), {phone: null}
\* matches every document without a phone.
MatchesIdentifiers(us, email, phone) ==
  {u \in UserIds :
     /\ us[u].exists
     /\ \/ email # NoEmail /\ u = email
        \/ IF phone = NoPhone THEN ~us[u].hasPhone
                              ELSE us[u].hasPhone /\ u = phone}

\* login, lines 69-90, for a request with either identifier or both; findOne
\* returns one of the matching documents
LoginFindBy(p, email, phone, pw) ==
  /\ procs[p] = Idle
  /\ IF (email = NoEmail /\ phone = NoPhone) \/ pw = NoPassword
     THEN /\ lastResp' = Resp("login", Err(400, "Please provide email/phone and password"),
                              NoToken, NoToken, NoToken, 0)
          /\ UNCHANGED procs
     ELSE IF MatchesIdentifiers(users, email, phone) = {}
     THEN /\ lastResp' = Resp("login", Err(401, "Invalid credentials"),
                              NoToken, NoToken, NoToken, 0)
          /\ UNCHANGED procs
     ELSE \E u \in MatchesIdentifiers(users, email, phone) :
            IF ~comparePassword(pw, users[u].password)
            THEN /\ lastResp' = Resp("login", Err(401, "Invalid credentials"),
                                     NoToken, NoToken, NoToken, u)
                 /\ UNCHANGED procs
            ELSE /\ procs' = [procs EXCEPT ![p] =
                                [Idle EXCEPT !.op = "login", !.pc = "save", !.uid = u,
                                             !.reqEmail = email, !.reqPhone = phone]]
                 /\ lastResp' = NoResp
  /\ UNCHANGED <<users, cache, now, issued, loggedOut>>
  /\ UNCHANGED payVars
  /\ UNCHANGED recipeVars

\* login, lines 92-98: save lastActive, then sign both tokens
LoginSave(p) ==
  /\ procs[p].op = "login" /\ procs[p].pc = "save"
  /\ LET u == procs[p].uid
     IN /\ users' = [users EXCEPT ![u] = preSave([@ EXCEPT !.lastActive = now], FALSE)]
        /\ procs' = [procs EXCEPT ![p].pc = "store",
                                  ![p].acc = generateAuthToken(u, now),
                                  ![p].ref = generateRefreshToken(u, now)]
  /\ lastResp' = NoResp
  /\ UNCHANGED <<cache, now, issued, loggedOut>>
  /\ UNCHANGED payVars
  /\ UNCHANGED recipeVars

\* login, lines 100-121: storeRefreshToken, then the 200 response
LoginStore(p, redisOk) ==
  /\ procs[p].op = "login" /\ procs[p].pc = "store"
  /\ LET u == procs[p].uid
     IN /\ cache' = storeRefreshToken(cache, u, procs[p].ref, now, redisOk)
        /\ issued' = issued \cup {procs[p].acc, procs[p].ref}
        /\ loggedOut' = [loggedOut EXCEPT ![u] = FALSE]
        /\ lastResp' = [Resp("login", Ok(200), NoToken, procs[p].acc, procs[p].ref, u)
                          EXCEPT !.slot = cache'[u].tok, !.loggedOut = FALSE]
  /\ procs' = [procs EXCEPT ![p] = Idle]
  /\ UNCHANGED <<users, now>>
  /\ UNCHANGED payVars
  /\ UNCHANGED recipeVars

\* --------------------------------------------------------------- refresh
\* refreshToken, lines 128-159.  jwt.verify is reached with jwt unbound, so
\* the handler throws a ReferenceError there, before its first await.
RefreshResult(tok, c, us, t) ==
  IF tok = NoToken THEN Err(400, "Refresh token is required")
  ELSE IF ~ControllerHasJwt THEN Thrown("ReferenceError")
  ELSE IF ~JwtVerify(tok, RefreshSecret, t) THEN Thrown("JsonWebTokenError")
  ELSE IF getRefreshToken(c, tok.id, TRUE) = NoToken
          \/ getRefreshToken(c, tok.id, TRUE) # tok
  THEN Err(401, "Invalid refresh token")
  ELSE IF ~us[tok.id].exists THEN Err(404, "User not found")
  ELSE Ok(200)

\* a refresh that answers with an access token of another user than the
\* presented token's
RefreshTokenCrossUser(tok) ==
  /\ lastResp' = Resp("refresh", Ok(200), tok,
                      generateAuthToken(IF tok.id = 1 THEN 2 ELSE 1, now),
                      NoToken, 0)
  /\ UNCHANGED <<users, cache, now, procs, issued, loggedOut>>
  /\ UNCHANGED payVars
  /\ UNCHANGED recipeVars

RefreshToken(tok) ==
  /\ LET res == RefreshResult(tok, cache, users, now)
     IN lastResp' = Resp("refresh", res, tok,
                         IF res.kind = "ok" THEN generateAuthToken(tok.id, now)
                         ELSE NoToken,
                         NoToken, tok.id)
  /\ UNCHANGED <<users, cache, now, procs, issued, loggedOut>>
  /\ UNCHANGED payVars
  /\ UNCHANGED recipeVars

\* ---------------------------------------------------------------- logout
\* a protect that also refuses the tokens of a user whose session was ended
ProtectResultRevocationAware(tok, us, t) ==
  IF tok = NoToken THEN Err(401, "Not authorized to access this route")
  ELSE IF ~JwtVerify(tok, AccessSecret, t) \/ loggedOut[tok.id]
  THEN Err(401, "Not authorized to access this route")
  ELSE IF ~us[tok.id].exists THEN Err(404, "User not found")
  ELSE IF ~us[tok.id].isActive THEN Err(401, "User account is deactivated")
  ELSE Ok(200)

\* a protect that lets the token of a deactivated account through
ProtectResultAnyAccount(tok, us, t) ==
  IF tok = NoToken THEN Err(401, "Not authorized to access this route")
  ELSE IF ~JwtVerify(tok, AccessSecret, t)
  THEN Err(401, "Not authorized to access this route")
  ELSE IF ~us[tok.id].exists THEN Err(404, "User not found")
  ELSE Ok(200)

\* protect, lines 8-44
ProtectResult(tok, us, t) ==
  IF tok = NoToken THEN Err(401, "Not authorized to access this route")
  ELSE IF ~JwtVerify(tok, AccessSecret, t)
  THEN Err(401, "Not authorized to access this route")
  ELSE IF ~us[tok.id].exists THEN Err(404, "User not found")
  ELSE IF ~us[tok.id].isActive THEN Err(401, "User account is deactivated")
  ELSE Ok(200)

\* POST /auth/logout: protect (saving lastActive and calling next(), reported
\* as a "protect" response), then the handler
LogoutProtect(p, tok) ==
  /\ procs[p] = Idle
  /\ LET res == ProtectResult(tok, users, now)
     IN IF res.kind = "ok"
        THEN /\ users' = [users EXCEPT ![tok.id] =
                                preSave([@ EXCEPT !.lastActive = now], FALSE)]
             /\ procs' = [procs EXCEPT ![p] =
                            [Idle EXCEPT !.op = "logout", !.pc = "del", !.uid = tok.id]]
             /\ lastResp' = Resp("protect", Ok(200), tok, NoToken, NoToken, tok.id)
        ELSE /\ lastResp' = Resp("logout", res, tok, NoToken, NoToken, 0)
             /\ UNCHANGED <<users, procs>>
  /\ UNCHANGED <<cache, now, issued, loggedOut>>
  /\ UNCHANGED payVars
  /\ UNCHANGED recipeVars

\* logout, lines 165-173: removeRefreshToken(req.user.id), then 200
LogoutDel(p, redisOk) ==
  /\ procs[p].op = "logout" /\ procs[p].pc = "del"
  /\ LET u == procs[p].uid
     IN /\ cache' = removeRefreshToken(cache, u, redisOk)
        /\ loggedOut' = [loggedOut EXCEPT ![u] = TRUE]
        /\ lastResp' = [Resp("logout", Ok(200), NoToken, NoToken, NoToken, u)
                          EXCEPT !.slot = cache'[u].tok, !.loggedOut = TRUE]
  /\ procs' = [procs EXCEPT ![p] = Idle]
  /\ UNCHANGED <<users, now, issued>>
  /\ UNCHANGED payVars
  /\ UNCHANGED recipeVars

\* -------------------------------------------- email and password tokens
\* the :token values requests present
PresentedValues == {RandomValue, "r2"}

\* the user whose stored hash and expiry a findOne({<path>: hashed,
\* <expire>: {$gt: Date.now()}}) matches (0: none)
FindByTokenHash(us, hashed, t, verification) ==
  LET hit == {u \in UserIds :
                /\ us[u].exists
                /\ IF verification
                   THEN /\ us[u].emailVerificationToken = hashed
                        /\ us[u].emailVerificationExpire > t
                   ELSE /\ us[u].passwordResetToken = hashed
                        /\ us[u].passwordResetExpire > t}
  IN IF hit = {} THEN 0 ELSE Min(hit)

\* verifyEmail, lines 178-203.  crypto.createHash at line 179 is evaluated
\* with crypto unbound in the controller, so the handler throws before its
\* first await; the lines after it run only with crypto bound.
VerifyEmail(value) ==
  /\ LET u == FindByTokenHash(users, Sha256(value), now, TRUE)
         r(res) == [Resp("verifyEmail", res, NoToken, NoToken, NoToken, 0)
                      EXCEPT !.value = value]
     IN IF ~ControllerHasCrypto
        THEN /\ lastResp' = r(Thrown("TypeError"))
             /\ UNCHANGED users
        ELSE IF u = 0
        THEN /\ lastResp' = r(Err(400, "Invalid or expired verification token"))
             /\ UNCHANGED users
        ELSE /\ users' = [users EXCEPT ![u] =
                            preSave([@ EXCEPT !.emailVerified = TRUE,
                                              !.emailVerificationToken = NoHash,
                                              !.emailVerificationExpire = 0], FALSE)]
             /\ lastResp' = r(Ok(200))
  /\ UNCHANGED <<cache, now, procs, issued, loggedOut>>
  /\ UNCHANGED payVars
  /\ UNCHANGED recipeVars

\* forgotPassword, lines 208-228: findOne({email}), 404 when absent, then
\* user.generatePasswordResetToken(), which is not a function of the model;
\* the save of the hash and the reset email, whose failure sendEmail
\* rethrows, run only if the method exists.
ForgotPassword(email, emailOk) ==
  /\ LET r(res) == Resp("forgotPassword", res, NoToken, NoToken, NoToken, email)
     IN IF ~users[email].exists
        THEN /\ lastResp' = r(Err(404, "User not found"))
             /\ UNCHANGED users
        ELSE IF ~ModelHasPasswordResetToken
        THEN /\ lastResp' = r(Thrown("TypeError"))
             /\ UNCHANGED users
        ELSE /\ users' = [users EXCEPT ![email] =
                            preSave([@ EXCEPT !.passwordResetToken = Sha256(RandomValue),
                                              !.passwordResetExpire = now + VerificationExpire],
                                    FALSE)]
             /\ lastResp' = r(IF emailOk THEN Ok(200) ELSE Thrown("EmailError"))
  /\ UNCHANGED <<cache, now, procs, issued, loggedOut>>
  /\ UNCHANGED payVars
  /\ UNCHANGED recipeVars

\* resetPassword, lines 233-259.  crypto.createHash at line 234 throws as in
\* verifyEmail; with crypto bound the save runs the pre-save hook on the
\* modified password.
ResetPassword(value, pw) ==
  /\ LET u == FindByTokenHash(users, Sha256(value), now, FALSE)
         r(res) == [Resp("resetPassword", res, NoToken, NoToken, NoToken, 0)
                      EXCEPT !.value = value]
     IN IF ~ControllerHasCrypto
        THEN /\ lastResp' = r(Thrown("TypeError"))
             /\ UNCHANGED users
        ELSE IF u = 0
        THEN /\ lastResp' = r(Err(400, "Invalid or expired reset token"))
             /\ UNCHANGED users
        ELSE /\ users' = [users EXCEPT ![u] =
                            preSave([@ EXCEPT !.password = Plain(pw),
                                              !.passwordResetToken = NoHash,
                                              !.passwordResetExpire = 0], TRUE)]
             /\ lastResp' = r(Ok(200))
  /\ UNCHANGED <<cache, now, procs, issued, loggedOut>>
  /\ UNCHANGED payVars
  /\ UNCHANGED recipeVars

\* ---------------------------------------------------------- optionalAuth
\* a token no secret of the application signed
ForgedToken == [sig |-> "forged", id |-> 1, iat |-> 0]

\* an optionalAuth that refuses a request whose token does not verify
optionalAuthStrict(tok, us, t) ==
  IF tok # NoToken /\ ~JwtVerify(tok, AccessSecret, t)
  THEN [res |-> Err(401, "Not authorized to access this route"), user |-> 0]
  ELSE [res |-> Ok(200),
        user |-> IF tok # NoToken /\ us[tok.id].exists THEN tok.id ELSE 0]

\* optionalAuth, lines 77-95: what it hands to next() and the id it leaves in
\* req.user (0: undefined or null).  A failing jwt.verify is caught at line 88.
optionalAuth(tok, us, t) ==
  [res |-> Ok(200),
   user |-> IF tok # NoToken /\ JwtVerify(tok, AccessSecret, t) /\ us[tok.id].exists
            THEN tok.id ELSE 0]

\* a request to a route behind optionalAuth
OptionalAuth(tok) ==
  /\ LET r == optionalAuth(tok, users, now)
     IN lastResp' = [Resp("optionalAuth", r.res, tok, NoToken, NoToken, 0)
                       EXCEPT !.user = r.user]
  /\ UNCHANGED <<users, cache, now, procs, issued, loggedOut>>
  /\ UNCHANGED payVars
  /\ UNCHANGED recipeVars

\* ------------------------------------------------------------------ spec
NextAuth ==
  \/ Tick
  \/ \E p \in Procs, e \in UserIds, pw \in Passwords : RegisterCheck(p, e, pw)
  \/ \E p \in Procs, ok \in BOOLEAN, mail \in BOOLEAN : RegisterCreate(p, ok, mail)
  \/ \E p \in Procs, e \in UserIds \cup {NoEmail}, pw \in Passwords \cup {WrongPassword, NoPassword} :
       LoginFind(p, e, pw)
  \/ \E p \in Procs : LoginSave(p)
  \/ \E p \in Procs, ok \in BOOLEAN : LoginStore(p, ok)
  \/ \E tok \in issued \cup {NoToken} : RefreshToken(tok)
  \/ \E p \in Procs, tok \in issued \cup {NoToken} : LogoutProtect(p, tok)
  \/ \E p \in Procs, ok \in BOOLEAN : LogoutDel(p, ok)

SpecAuth == InitAuth /\ [][NextAuth]_vars

\* register and login issuing tokens, the clock expiring them, and requests
\* to routes behind optionalAuth
NextOptional ==
  \/ Tick
  \/ \E p \in Procs, e \in UserIds, pw \in Passwords : RegisterCheck(p, e, pw)
  \/ \E p \in Procs, ok \in BOOLEAN, mail \in BOOLEAN : RegisterCreate(p, ok, mail)
  \/ \E p \in Procs, e \in UserIds \cup {NoEmail}, pw \in Passwords \cup {WrongPassword, NoPassword} :
       LoginFind(p, e, pw)
  \/ \E p \in Procs : LoginSave(p)
  \/ \E p \in Procs, ok \in BOOLEAN : LoginStore(p, ok)
  \/ \E tok \in issued \cup {NoToken, ForgedToken} : OptionalAuth(tok)

SpecOptional == InitAuth /\ [][NextOptional]_vars

\* register, login, refresh and the email-verification and password-reset
\* handlers
NextAccount ==
  \/ Tick
  \/ \E p \in Procs, e \in UserIds, pw \in Passwords : RegisterCheck(p, e, pw)
  \/ \E p \in Procs, ok \in BOOLEAN, mail \in BOOLEAN : RegisterCreate(p, ok, mail)
  \/ \E p \in Procs, e \in UserIds \cup {NoEmail}, pw \in Passwords \cup {WrongPassword, NoPassword} :
       LoginFind(p, e, pw)
  \/ \E p \in Procs : LoginSave(p)
  \/ \E p \in Procs, ok \in BOOLEAN : LoginStore(p, ok)
  \/ \E tok \in issued \cup {NoToken} : RefreshToken(tok)
  \/ \E v \in PresentedValues : VerifyEmail(v)
  \/ \E e \in UserIds, mail \in BOOLEAN : ForgotPassword(e, mail)
  \/ \E v \in PresentedValues, pw \in Passwords \cup {WrongPassword} : ResetPassword(v, pw)

SpecAccount == InitAuth /\ [][NextAccount]_vars

\* registered users, each with or without a phone (phone is optional at
\* register), and logins by email, by phone or by both
InitIdentifiers ==
  /\ \E ph \in [UserIds -> BOOLEAN] :
       users = [u \in UserIds |-> [NewUser("pw1", 0) EXCEPT !.hasPhone = ph[u]]]
  /\ cache = [u \in UserIds |-> NoEntry]
  /\ now = 0
  /\ procs = [p \in Procs |-> Idle]
  /\ issued = {}
  /\ loggedOut = [u \in UserIds |-> FALSE]
  /\ lastResp = NoResp
  /\ PayIdle
  /\ RecipeIdle

NextIdentifiers ==
  \/ Tick
  \/ \E p \in Procs, e \in UserIds \cup {NoEmail}, ph \in UserIds \cup {NoPhone},
        pw \in Passwords \cup {WrongPassword} : LoginFindBy(p, e, ph, pw)
  \/ \E p \in Procs : LoginSave(p)
  \/ \E p \in Procs, ok \in BOOLEAN : LoginStore(p, ok)

SpecIdentifiers == InitIdentifiers /\ [][NextIdentifiers]_vars

\* ------------------------------------------- protect, requireSubscription
\* a gate that looks at the subscription status only
requireSubscriptionStatusOnly(level, user) ==
  IF user.status # level
  THEN Err(403, "This feature requires a " \o level \o " subscription")
  ELSE Ok(200)

\* requireSubscription(level), lines 62-74: what the middleware hands to
\* next() for the req.user that protect loaded
requireSubscription(level, user) ==
  IF user.status # level /\ user.role # "admin"
  THEN Err(403, "This feature requires a " \o level \o " subscription")
  ELSE Ok(200)

\* a request to a route behind protect alone: the middleware's answer, and
\* on a pass the save of lastActive (lines 37-38) and the id left in req.user
Protect(tok) ==
  /\ LET res == ProtectResult(tok, users, now)
     IN IF res.kind = "ok"
        THEN /\ users' = [users EXCEPT ![tok.id] =
                                preSave([@ EXCEPT !.lastActive = now], FALSE)]
             /\ lastResp' = [Resp("protect", res, tok, NoToken, NoToken, tok.id)
                               EXCEPT !.user = tok.id]
        ELSE /\ lastResp' = Resp("protect", res, tok, NoToken, NoToken, 0)
             /\ UNCHANGED users
  /\ UNCHANGED <<cache, now, procs, issued, loggedOut>>
  /\ UNCHANGED payVars
  /\ UNCHANGED recipeVars

\* a request to a route behind protect and requireSubscription('premium'):
\* protect as above, then the gate on the document protect loaded
RequireSubscription(tok) ==
  /\ LET res == ProtectResult(tok, users, now)
     IN IF res.kind = "ok"
        THEN /\ users' = [users EXCEPT ![tok.id] =
                                preSave([@ EXCEPT !.lastActive = now], FALSE)]
             /\ lastResp' = [Resp("requireSubscription",
                                  requireSubscription("premium", users[tok.id]),
                                  tok, NoToken, NoToken, tok.id)
                               EXCEPT !.user = tok.id]
        ELSE /\ lastResp' = Resp("protect", res, tok, NoToken, NoToken, 0)
             /\ UNCHANGED users
  /\ UNCHANGED <<cache, now, procs, issued, loggedOut>>
  /\ UNCHANGED payVars
  /\ UNCHANGED recipeVars

\* what a user id can stand for in the store: no document (never registered,
\* or deleted), or an account created earlier with any role, subscription
\* status and isActive flag the schema admits
StoredUsers ==
  {NoUser} \cup
  {[NewUser("pw1", 0) EXCEPT !.role = r, !.status = s, !.isActive = a] :
     r \in Roles, s \in Statuses, a \in BOOLEAN}

\* a moment in the life of the store: accounts created at time 0, one of
\* them since deleted, deactivated, given another role or another
\* subscription status (protect and the gate read one document, the one the
\* token names), and the access and refresh tokens signed for them up to
\* this moment
InitGate ==
  /\ \E v \in UserIds, d \in StoredUsers :
       users = [u \in UserIds |-> IF u = v THEN d ELSE NewUser("pw1", 0)]
  /\ cache = [u \in UserIds |-> NoEntry]
  /\ now \in Times
  /\ procs = [p \in Procs |-> Idle]
  /\ issued = {generateAuthToken(u, t) : u \in UserIds, t \in 0..now}
                \cup {generateRefreshToken(u, t) : u \in UserIds, t \in 0..now}
  /\ loggedOut = [u \in UserIds |-> FALSE]
  /\ lastResp = NoResp
  /\ PayIdle
  /\ RecipeIdle

NextGate ==
  \/ Tick
  \/ \E tok \in issued \cup {NoToken, ForgedToken} : Protect(tok)
  \/ \E tok \in issued \cup {NoToken, ForgedToken} : RequireSubscription(tok)

SpecGate == InitGate /\ [][NextGate]_vars

\* -------------------------------------------------- getRecipes, getRecipe
\* `!req.user || req.user.subscription.status === 'free'` (lines 66 and 113)
\* for the request of user r, 0 when the request carries no req.user
FreeOrAnonymous(r, us) == r = 0 \/ us[r].status = "free"

\* Recipe.find(query), lines 35-75: the published recipes, without the
\* premium ones when lines 66-68 put premium: false in the query (the page
\* of 20 holds them all)
FindRecipes(r, us, rs) ==
  {id \in RecipeIds :
     rs[id].published /\ (FreeOrAnonymous(r, us) => ~rs[id].premium)}

\* what getRecipe answers before it counts the view, lines 98-115
getRecipe(r, id, us, rs) ==
  IF id \notin RecipeIds THEN Err(404, "Recipe not found")
  ELSE IF rs[id].premium /\ FreeOrAnonymous(r, us)
  THEN Err(403, "Premium subscription required")
  ELSE Ok(200)

\* a response of op to the request of user r carrying the recipes data, with
\* the requester's status and role at that moment
RecipeResp(op, res, r, data, cached) ==
  [op |-> op, res |-> res, user |-> r,
   status |-> IF r = 0 THEN "" ELSE users[r].status,
   role |-> IF r = 0 THEN "" ELSE users[r].role,
   data |-> data, cached |-> cached]

\* who can stand behind a request: nobody, or a stored user
Requesters == {0} \cup {u \in UserIds : users[u].exists}

\* GET /recipes, lines 12-92: the cached response of this query if there is
\* one, else the query's result, cached for ListTtl
GetRecipes(r, getOk, setOk) ==
  /\ r \in Requesters
  /\ LET cachedData == CacheGet(listCache, ListKey, getOk)
     IN IF cachedData # NoToken
        THEN /\ lastRecipe' = RecipeResp("getRecipes", Ok(200), r, cachedData.data, TRUE)
             /\ UNCHANGED listCache
        ELSE LET data == FindRecipes(r, users, recipes)
             IN /\ listCache' = CacheSet(listCache, ListKey, CachedList(data),
                                         ListTtl, now, setOk)
                /\ lastRecipe' = RecipeResp("getRecipes", Ok(200), r, data, FALSE)
  /\ lastResp' = NoResp
  /\ UNCHANGED <<users, cache, now, procs, issued, loggedOut, recipes>>
  /\ UNCHANGED payVars

\* GET /recipes/:id, lines 97-133: 404, 403, or the recipe with its view
\* counted
GetRecipe(r, id) ==
  /\ r \in Requesters
  /\ id \in RecipeIds => recipes[id].views < MaxViews
  /\ LET res == getRecipe(r, id, users, recipes)
     IN IF res.kind = "ok"
        THEN /\ recipes' = [recipes EXCEPT ![id].views = @ + 1]
             /\ lastRecipe' = RecipeResp("getRecipe", res, r, {id}, FALSE)
        ELSE /\ lastRecipe' = RecipeResp("getRecipe", res, r, {}, FALSE)
             /\ UNCHANGED recipes
  /\ lastResp' = NoResp
  /\ UNCHANGED <<users, cache, now, procs, issued, loggedOut, listCache>>
  /\ UNCHANGED payVars

\* active accounts of every role and subscription status, the recipes of
\* RecipeIdle, and requests to the two recipe routes
InitRecipes ==
  /\ users \in [UserIds -> {u \in StoredUsers : u.exists /\ u.isActive}]
  /\ cache = [u \in UserIds |-> NoEntry]
  /\ now = 0
  /\ procs = [p \in Procs |-> Idle]
  /\ issued = {}
  /\ loggedOut = [u \in UserIds |-> FALSE]
  /\ lastResp = NoResp
  /\ PayIdle
  /\ RecipeIdle

NextRecipes ==
  \/ Tick
  \/ \E r \in UserIds \cup {0}, getOk \in BOOLEAN, setOk \in BOOLEAN :
       GetRecipes(r, getOk, setOk)
  \/ \E r \in UserIds \cup {0}, id \in RecipeIds \cup {0} : GetRecipe(r, id)

SpecRecipes == InitRecipes /\ [][NextRecipes]_vars

\* ------------------------------------------------- payment: subscribeUser
\* the store of SpecPay: one user registered, nobody subscribed
InitPay ==
  /\ users = [u \in UserIds |-> IF u = 1 THEN NewUser("pw1", 0) ELSE NoUser]
  /\ cache = [u \in UserIds |-> NoEntry]
  /\ now = 0
  /\ procs = [p \in Procs |-> Idle]
  /\ issued = {}
  /\ loggedOut = [u \in UserIds |-> FALSE]
  /\ lastResp = NoResp
  /\ PayIdle
  /\ RecipeIdle

\* what a call to the payment gateway comes to: a 2xx response reporting
\* success, an exception of axios (no response, or a status outside 2xx), or
\* a 2xx response whose body says status: false and carries no data
GatewayResults == {"ok", "throws", "unsuccessful"}

\* a request is served by the first worker that has none
Free(w) == jobs[w] = NoJob /\ \A v \in 1..(w - 1) : jobs[v] # NoJob

\* subscribeUser, lines 98-124: User.findById, getOrCreateCustomer and the
\* gateway's POST /subscription (gw: what the gateway calls came to); the
\* gateway hands out a fresh subscription_code.  An unsuccessful body ends in
\* the catch as well: getOrCreateCustomer returns nothing when data.status
\* is false (line 170), and response.data.data is absent at line 124, so
\* reading customer.customer_code or subscription.plan throws.
SubscribeStart(w, u, gw) ==
  /\ Free(w)
  /\ LET j == [NoJob EXCEPT !.op = "subscribe", !.u = u,
                            !.ldStatus = users[u].status,
                            !.gwOk = (gw = "ok")]
     IN IF ~users[u].exists \/ gw # "ok"
        THEN /\ lastPay' = Done(j, "error")
             /\ UNCHANGED <<jobs, nextCode>>
        ELSE /\ nextCode <= MaxSubs
             /\ jobs' = [jobs EXCEPT ![w] =
                           [j EXCEPT !.pc = "saveUser", !.code = nextCode]]
             /\ nextCode' = nextCode + 1
             /\ lastPay' = NoPay
  /\ UNCHANGED <<subs, markers, appliedTs>>
  /\ UNCHANGED authVars
  /\ UNCHANGED recipeVars

\* subscribeUser, lines 126-136: user.subscription = {status: 'premium', ...,
\* autoRenew: true}; await user.save()
SubscribeSaveUser(w, dbOk) ==
  /\ jobs[w].op = "subscribe" /\ jobs[w].pc = "saveUser"
  /\ LET j == jobs[w]
     IN IF dbOk
        THEN /\ users' = [users EXCEPT ![j.u] =
                            preSave([@ EXCEPT !.status = "premium",
                                              !.autoRenew = TRUE], FALSE)]
             /\ jobs' = [jobs EXCEPT ![w].pc = "createSub", ![w].uw = @ + 1,
                           ![w].changed = @ \/ users[j.u].status # "premium"]
             /\ lastPay' = NoPay
        ELSE /\ lastPay' = Done(j, "error")
             /\ jobs' = [jobs EXCEPT ![w] = NoJob]
             /\ UNCHANGED users
  /\ UNCHANGED <<cache, now, procs, issued, loggedOut, lastResp>>
  /\ UNCHANGED <<subs, nextCode, markers, appliedTs>>
  /\ UNCHANGED recipeVars

\* subscribeUser, lines 138-154: Subscription.create({... status: 'active'})
SubscribeCreate(w, dbOk) ==
  /\ jobs[w].op = "subscribe" /\ jobs[w].pc = "createSub"
  /\ LET j == jobs[w]
     IN IF dbOk
        THEN /\ subs' = Append(subs, NewSubscription(j.u, j.code))
             /\ lastPay' = Done([j EXCEPT !.lw = @ + 1], "ok")
        ELSE /\ lastPay' = Done(j, "error")
             /\ UNCHANGED subs
  /\ jobs' = [jobs EXCEPT ![w] = NoJob]
  /\ UNCHANGED <<nextCode, markers, appliedTs>>
  /\ UNCHANGED authVars
  /\ UNCHANGED recipeVars

\* ------------------------------------------- payment: cancelSubscription
\* cancelSubscription, lines 196-220: Subscription.findOne({user, status:
\* 'active'}), then the gateway's POST /subscription/disable.  The response
\* body is not inspected before the writes: only an exception of axios
\* reaches the catch.
CancelStart(w, u, gw) ==
  /\ Free(w)
  /\ LET i == FindActive(subs, u)
         j == [NoJob EXCEPT !.op = "cancel", !.u = u, !.sub = i,
                            !.ldStatus = users[u].status,
                            !.gwOk = (gw = "ok")]
     IN IF i = 0 \/ gw = "throws"
        THEN /\ lastPay' = Done(j, "error")
             /\ UNCHANGED jobs
        ELSE /\ jobs' = [jobs EXCEPT ![w] = [j EXCEPT !.pc = "saveSub"]]
             /\ lastPay' = NoPay
  /\ UNCHANGED <<subs, nextCode, markers, appliedTs>>
  /\ UNCHANGED authVars
  /\ UNCHANGED recipeVars

\* cancelSubscription, lines 222-225
CancelSaveSub(w, dbOk) ==
  /\ jobs[w].op = "cancel" /\ jobs[w].pc = "saveSub"
  /\ LET j == jobs[w]
     IN IF dbOk
        THEN /\ subs' = [subs EXCEPT ![j.sub].status = "cancelled",
                                     ![j.sub].cancelledAt = now]
             /\ jobs' = [jobs EXCEPT ![w].pc = "loadUser", ![w].lw = @ + 1]
             /\ lastPay' = NoPay
        ELSE /\ lastPay' = Done(j, "error")
             /\ jobs' = [jobs EXCEPT ![w] = NoJob]
             /\ UNCHANGED subs
  /\ UNCHANGED <<nextCode, markers, appliedTs>>
  /\ UNCHANGED authVars
  /\ UNCHANGED recipeVars

\* cancelSubscription, line 228: User.findById(userId)
CancelLoadUser(w) ==
  /\ jobs[w].op = "cancel" /\ jobs[w].pc = "loadUser"
  /\ jobs' = [jobs EXCEPT ![w].pc = "saveUser",
                          ![w].ldStatus = users[jobs[w].u].status,
                          ![w].ldAuto = users[jobs[w].u].autoRenew]
  /\ lastPay' = NoPay
  /\ UNCHANGED <<subs, nextCode, markers, appliedTs>>
  /\ UNCHANGED authVars
  /\ UNCHANGED recipeVars

\* cancelSubscription, lines 229-237
CancelSaveUser(w, dbOk) ==
  /\ jobs[w].op = "cancel" /\ jobs[w].pc = "saveUser"
  /\ LET j == jobs[w]
         doc == SaveStatus(users[j.u], j.ldStatus, j.ldAuto, "cancelled", FALSE)
     IN IF dbOk
        THEN /\ users' = [users EXCEPT ![j.u] = doc]
             /\ lastPay' = Done([j EXCEPT !.uw = IF doc # users[j.u] THEN @ + 1 ELSE @,
                                          !.changed = doc.status # users[j.u].status],
                                "ok")
        ELSE /\ lastPay' = Done(j, "error")
             /\ UNCHANGED users
  /\ jobs' = [jobs EXCEPT ![w] = NoJob]
  /\ UNCHANGED <<cache, now, procs, issued, loggedOut, lastResp>>
  /\ UNCHANGED <<subs, nextCode, markers, appliedTs>>
  /\ UNCHANGED recipeVars

\* ---------------------------------------------------- payment: webhook
\* the user an event is about: the customer's, or the owner of the ledger
\* record with the event's subscription_code (0: none)
TargetOf(ev) ==
  IF ev.type = "subscription.disable"
  THEN IF FindByCode(subs, ev.code) = 0 THEN 0
       ELSE subs[FindByCode(subs, ev.code)].user
  ELSE FindByEmail(users, ev.email)

\* handleChargeSuccess, lines 283-285: if (metadata && metadata.subscription)
\* and the user the customer's email finds
ChargeAppliesToAnyCharge(ev, u) == u # 0

ChargeApplies(ev, u) == ev.sub /\ u # 0

\* processWebhook, lines 265-266: the default branch logs the event type
handleUnknownAsCharge(j) ==
  [j EXCEPT !.pc = "chargeSave", !.u = 1, !.ldStatus = users[1].status,
            !.ldAuto = users[1].autoRenew]

handleUnknown(j) == [j EXCEPT !.pc = "done"]

\* processWebhook, lines 251-273, with the first query of the handler it
\* dispatches to: the job the handler goes on with, pc "done" when the
\* handler has nothing left to do
processWebhook(j) ==
  LET ev == j.ev
      u == TargetOf(ev)
      ju == [j EXCEPT !.u = u,
                      !.ldStatus = IF u = 0 THEN "free" ELSE users[u].status,
                      !.ldAuto = IF u = 0 THEN TRUE ELSE users[u].autoRenew]
  IN CASE ev.type = "charge.success" ->
            \* handleChargeSuccess, lines 276-285
            IF ChargeApplies(ev, u) THEN [ju EXCEPT !.pc = "chargeSave"]
            ELSE [j EXCEPT !.pc = "done"]
       [] ev.type = "subscription.create" ->
            \* handleSubscriptionCreate, lines 293-297
            IF u # 0 THEN [ju EXCEPT !.pc = "createSave"]
            ELSE [j EXCEPT !.pc = "done"]
       [] ev.type = "subscription.disable" ->
            \* handleSubscriptionDisable, lines 311-316
            IF FindByCode(subs, ev.code) # 0
            THEN [j EXCEPT !.pc = "disableSaveSub", !.u = u,
                           !.sub = FindByCode(subs, ev.code),
                           !.ldSub = subs[FindByCode(subs, ev.code)].status]
            ELSE [j EXCEPT !.pc = "done"]
       [] ev.type = "invoice.payment_failed" ->
            \* handlePaymentFailed, lines 330-337: logs only
            [j EXCEPT !.pc = "done"]
       [] OTHER -> handleUnknown(j)

\* POST /payments/webhook: the signature gate over verifyWebhook, the atomic
\* check-and-insert of the idempotency marker, then processWebhook
WebhookReceive(w, raw, signature) ==
  /\ Free(w)
  /\ LET ev == JsonParse(raw)
         u == TargetOf(ev)
         j == [NoJob EXCEPT !.op = "webhook", !.ev = ev, !.u = u,
                 !.rawSigOk = (signature = Hmac(ProviderSecret, raw)),
                 !.ldStatus = IF u = 0 THEN "free" ELSE users[u].status]
     IN IF ~verifyWebhook(ev, signature)
        THEN /\ lastPay' = Rejected(j, "SignatureError")
             /\ UNCHANGED <<markers, jobs, appliedTs>>
        ELSE IF ev \in markers
        THEN /\ lastPay' = Rejected(j, "IdempotentNoop")
             /\ UNCHANGED <<markers, jobs, appliedTs>>
        ELSE /\ Cardinality(markers) < MaxMarkers
             /\ markers' = markers \cup {ev}
             /\ IF processWebhook(j).pc = "done"
                THEN /\ lastPay' = Done(j, "ok")
                     /\ UNCHANGED <<jobs, appliedTs>>
                ELSE /\ jobs' = [jobs EXCEPT ![w] = processWebhook(j)]
                     /\ lastPay' = NoPay
                     /\ UNCHANGED appliedTs
  /\ UNCHANGED <<subs, nextCode>>
  /\ UNCHANGED authVars
  /\ UNCHANGED recipeVars

\* a webhook handler ends: its event applied to the user's subscription (the
\* event's timestamp is then the newest applied to that user, if it is newer
\* than the one before) or failed
WebhookEnd(w, j, outcome) ==
  /\ lastPay' = Done(j, outcome)
  /\ jobs' = [jobs EXCEPT ![w] = NoJob]
  /\ appliedTs' = IF outcome = "ok" /\ j.u # 0 /\ j.ev.ts > appliedTs[j.u]
                  THEN [appliedTs EXCEPT ![j.u] = j.ev.ts]
                  ELSE appliedTs

\* handleChargeSuccess, lines 286-287: user.subscription.status = 'premium'
ChargeSave(w, dbOk) ==
  /\ jobs[w].op = "webhook" /\ jobs[w].pc = "chargeSave"
  /\ LET j == jobs[w]
         doc == SaveStatus(users[j.u], j.ldStatus, j.ldAuto, "premium", j.ldAuto)
     IN IF dbOk
        THEN /\ users' = [users EXCEPT ![j.u] = doc]
             /\ WebhookEnd(w, [j EXCEPT !.uw = IF doc # users[j.u] THEN @ + 1 ELSE @,
                                        !.changed = doc.status # users[j.u].status],
                           "ok")
        ELSE /\ WebhookEnd(w, j, "error")
             /\ UNCHANGED users
  /\ UNCHANGED <<cache, now, procs, issued, loggedOut, lastResp>>
  /\ UNCHANGED <<subs, nextCode, markers>>
  /\ UNCHANGED recipeVars

\* handleSubscriptionCreate, lines 298-306: user.subscription = {status:
\* 'premium', ..., autoRenew: true}
CreateSave(w, dbOk) ==
  /\ jobs[w].op = "webhook" /\ jobs[w].pc = "createSave"
  /\ LET j == jobs[w]
     IN IF dbOk
        THEN /\ users' = [users EXCEPT ![j.u] =
                            preSave([@ EXCEPT !.status = "premium",
                                              !.autoRenew = TRUE], FALSE)]
             /\ WebhookEnd(w, [j EXCEPT !.uw = @ + 1,
                                        !.changed = users[j.u].status # "premium"],
                           "ok")
        ELSE /\ WebhookEnd(w, j, "error")
             /\ UNCHANGED users
  /\ UNCHANGED <<cache, now, procs, issued, loggedOut, lastResp>>
  /\ UNCHANGED <<subs, nextCode, markers>>
  /\ UNCHANGED recipeVars

\* handleSubscriptionDisable, lines 317-318: subscription.status =
\* 'cancelled'; await subscription.save()
DisableSaveSub(w, dbOk) ==
  /\ jobs[w].op = "webhook" /\ jobs[w].pc = "disableSaveSub"
  /\ LET j == jobs[w]
     IN IF dbOk
        THEN /\ subs' = IF j.ldSub # "cancelled"
                        THEN [subs EXCEPT ![j.sub].status = "cancelled"]
                        ELSE subs
             /\ jobs' = [jobs EXCEPT ![w].pc = "disableLoadUser",
                           ![w].lw = IF j.ldSub # "cancelled" THEN @ + 1 ELSE @]
             /\ lastPay' = NoPay
             /\ UNCHANGED appliedTs
        ELSE /\ WebhookEnd(w, j, "error")
             /\ UNCHANGED subs
  /\ UNCHANGED <<nextCode, markers>>
  /\ UNCHANGED authVars
  /\ UNCHANGED recipeVars

\* handleSubscriptionDisable, line 320: User.findById(subscription.user)
DisableLoadUser(w) ==
  /\ jobs[w].op = "webhook" /\ jobs[w].pc = "disableLoadUser"
  /\ jobs' = [jobs EXCEPT ![w].pc = "disableSaveUser",
                          ![w].ldStatus = users[jobs[w].u].status,
                          ![w].ldAuto = users[jobs[w].u].autoRenew]
  /\ lastPay' = NoPay
  /\ UNCHANGED <<subs, nextCode, markers, appliedTs>>
  /\ UNCHANGED authVars
  /\ UNCHANGED recipeVars

\* handleSubscriptionDisable, lines 321-325: user.subscription.status =
\* 'free'; autoRenew = false; await user.save()
DisableSaveUser(w, dbOk) ==
  /\ jobs[w].op = "webhook" /\ jobs[w].pc = "disableSaveUser"
  /\ LET j == jobs[w]
         doc == SaveStatus(users[j.u], j.ldStatus, j.ldAuto, "free", FALSE)
     IN IF dbOk
        THEN /\ users' = [users EXCEPT ![j.u] = doc]
             /\ WebhookEnd(w, [j EXCEPT !.uw = IF doc # users[j.u] THEN @ + 1 ELSE @,
                                        !.changed = doc.status # users[j.u].status],
                           "ok")
        ELSE /\ WebhookEnd(w, j, "error")
             /\ UNCHANGED users
  /\ UNCHANGED <<cache, now, procs, issued, loggedOut, lastResp>>
  /\ UNCHANGED <<subs, nextCode, markers>>
  /\ UNCHANGED recipeVars

NextPay ==
  \/ \E w \in Procs, u \in UserIds, gw \in GatewayResults : SubscribeStart(w, u, gw)
  \/ \E w \in Procs, ok \in BOOLEAN : SubscribeSaveUser(w, ok)
  \/ \E w \in Procs, ok \in BOOLEAN : SubscribeCreate(w, ok)
  \/ \E w \in Procs, u \in UserIds, gw \in GatewayResults : CancelStart(w, u, gw)
  \/ \E w \in Procs, ok \in BOOLEAN : CancelSaveSub(w, ok)
  \/ \E w \in Procs : CancelLoadUser(w)
  \/ \E w \in Procs, ok \in BOOLEAN : CancelSaveUser(w, ok)
  \/ \E w \in Procs, raw \in RawBodies :
       \E signature \in SignaturesFor(raw) : WebhookReceive(w, raw, signature)
  \/ \E w \in Procs, ok \in BOOLEAN : ChargeSave(w, ok)
  \/ \E w \in Procs, ok \in BOOLEAN : CreateSave(w, ok)
  \/ \E w \in Procs, ok \in BOOLEAN : DisableSaveSub(w, ok)
  \/ \E w \in Procs : DisableLoadUser(w)
  \/ \E w \in Procs, ok \in BOOLEAN : DisableSaveUser(w, ok)

SpecPay == InitPay /\ [][NextPay]_vars

\* ------------------------------------------------------ claims: sessions
RefreshTokensOf(u) == {t \in issued : t.sig = RefreshSecret /\ t.id = u}

\* the refresh tokens of user u that a refresh request would accept now
AcceptedBy(u) ==
  {t \in RefreshTokensOf(u) : RefreshResult(t, cache, users, now).kind = "ok"}

IsAuthError(res) == res.kind = "ErrorResponse" /\ res.status = 401

\* C1: after a logout of a user completed, and until that user logs in
\* again, a refresh request presenting a refresh token issued to that user
\* is answered with the 401 authentication error and no access token.
C1_LogoutRevokes ==
  (/\ lastResp.op = "refresh"
   /\ lastResp.tok \in issued
   /\ lastResp.tok.sig = RefreshSecret
   /\ lastResp.loggedOut)
  => (IsAuthError(lastResp.res) /\ lastResp.access = NoToken)

\* C2: once two logins of a user have completed with different refresh
\* tokens, a refresh request presenting one of that user's refresh tokens
\* succeeds exactly when the token is the one the session cache holds (the
\* last stored one); the superseded token is rejected.
C2_LastLoginWins ==
  (/\ lastResp.op = "refresh"
   /\ lastResp.tok \in issued
   /\ lastResp.tok.sig = RefreshSecret
   /\ Cardinality(RefreshTokensOf(lastResp.tok.id)) >= 2)
  => (lastResp.res.kind = "ok" <=> lastResp.slot = lastResp.tok)

\* C3: in every reachable state each user's session-cache slot is absent or
\* holds, whole, one refresh token that a completed store of that user's own
\* login or register wrote, and refresh accepts at most one refresh token
\* per user.
C3_SingleSlot ==
  \A u \in UserIds :
    /\ \/ cache[u] = NoEntry
       \/ /\ cache[u].tok \in RefreshTokensOf(u)
          /\ cache[u].exp > now
    /\ Cardinality(AcceptedBy(u)) <= 1

\* two logins of one user overlapped: the token signed first was stored
\* last and replaced the one signed later
C3_Witness ==
  \E u \in UserIds :
    /\ cache[u].tok = generateRefreshToken(u, 0)
    /\ generateRefreshToken(u, 1) \in issued
    /\ lastResp.op = "login" /\ lastResp.res.kind = "ok"
    /\ lastResp.refresh = generateRefreshToken(u, 0)
    /\ now = 1

\* C4: a refresh request issues an access token only if the presented token
\* equals the session-cache entry of the user it names; when the entry is
\* absent or different the answer is the 401 authentication error and no
\* access token.
C4_RefreshFailsClosed ==
  (lastResp.op = "refresh" /\ lastResp.tok # NoToken)
  => /\ lastResp.access # NoToken => lastResp.slot = lastResp.tok
     /\ lastResp.slot # lastResp.tok
          => (IsAuthError(lastResp.res) /\ lastResp.access = NoToken)

\* ------------------------------------------------------ claims: payments
\* the ledger records of user u, and those of them that are active
LedgerOf(u) == {i \in 1..Len(subs) : subs[i].user = u}
ActiveOf(u) == {i \in LedgerOf(u) : subs[i].status = "active"}

\* r reports a delivery that was applied to a user's subscription
Applied(r) ==
  /\ r.op = "webhook" /\ r.outcome = "ok" /\ r.u # 0
  /\ \/ r.type = "charge.success" /\ r.sub
     \/ r.type = "subscription.create"
     \/ r.type = "subscription.disable"

\* C5: of the deliveries of one event, the one that is applied writes the
\* ledger exactly once, and moves a free user's status exactly once; every
\* delivery acknowledged as IdempotentNoop changes neither the user snapshot
\* nor the ledger.
C5_OneTransitionOneLedgerWrite ==
  [][/\ Applied(lastPay') => lastPay'.lw = 1
     /\ Applied(lastPay') /\ lastPay'.type = "charge.success"
          /\ lastPay'.was = "free" => lastPay'.changed /\ lastPay'.uw = 1
     /\ lastPay'.outcome = "IdempotentNoop" => UNCHANGED <<users, subs, markers>>
    ]_vars

\* C6: no two copies of one event are in a handler at once, and when a
\* subscription-tied charge.success has been applied to a user who was free,
\* the user is premium and has exactly one ledger record.
C6_ConcurrentCopiesApplyOnce ==
  /\ \A w1, w2 \in Procs :
       jobs[w1].op = "webhook" /\ jobs[w2].op = "webhook"
         /\ jobs[w1].ev = jobs[w2].ev => w1 = w2
  /\ lastPay.op = "webhook" /\ lastPay.outcome = "ok" /\ lastPay.u # 0
       /\ lastPay.type = "charge.success" /\ lastPay.sub /\ lastPay.was = "free"
       => /\ users[lastPay.u].status = "premium"
          /\ Cardinality(LedgerOf(lastPay.u)) = 1

\* C7: a delivery whose event is older than the newest event already applied
\* to its user never changes that user's status.
C7_StaleEventKeepsStatus ==
  lastPay.op = "webhook" /\ lastPay.stale => ~lastPay.changed

\* C8: a delivery whose signature header is not the keyed hash of its raw body
\* under the provider secret is answered SignatureError, reaches no handler,
\* and leaves the user snapshot, the ledger and the markers unchanged.
C8_BadSignatureRejected ==
  [][/\ \A w \in Procs : jobs'[w].op = "webhook" => jobs'[w].rawSigOk
     /\ lastPay'.op = "webhook" /\ ~lastPay'.rawSigOk
          => /\ lastPay'.outcome = "SignatureError"
             /\ UNCHANGED <<users, subs, markers, jobs>>
    ]_vars

\* the status the ledger of user u implies
LedgerStatus(u) ==
  IF ActiveOf(u) # {} THEN "premium"
  ELSE IF LedgerOf(u) # {} THEN "cancelled"
  ELSE "free"

\* C9: whenever no operation is under way, every user's snapshot status is
\* the one the user's ledger implies: premium with an active record,
\* cancelled with a cancelled one.
C9_SnapshotMatchesLedger ==
  (\A w \in Procs : jobs[w] = NoJob)
    => \A u \in UserIds : users[u].exists => users[u].status = LedgerStatus(u)

\* C10: subscribeUser, cancelSubscription or the handling of
\* subscription.disable that ends in an error has written neither the
\* ledger nor the user snapshot.
C10_MultiWriteAllOrNothing ==
  /\ lastPay.outcome = "error"
  /\ \/ lastPay.op \in {"subscribe", "cancel"}
     \/ lastPay.op = "webhook" /\ lastPay.type = "subscription.disable"
  => lastPay.uw = 0 /\ lastPay.lw = 0

\* job w is between two of its writes: it has written the ledger or the
\* snapshot of its user and has not ended
MidWrite(w) == jobs[w].op # "idle" /\ (jobs[w].uw > 0 \/ jobs[w].lw > 0)

\* job w is about to save a user document it loaded earlier
AtUserSave(w) ==
  \/ jobs[w].op = "cancel" /\ jobs[w].pc = "saveUser"
  \/ jobs[w].op = "webhook" /\ jobs[w].pc \in {"chargeSave", "disableSaveUser"}

\* C11: operations on one user do not interleave their writes: while an
\* operation is between its ledger write and its snapshot write no other
\* operation writes that user's snapshot or ledger records, and an operation
\* saves a user document only if the subscription it loaded is still the
\* stored one (so the outcome is that of running the operations one after
\* the other).
C11_WritesDoNotInterleave ==
  [][\A w \in Procs :
       /\ MidWrite(w) /\ jobs'[w] = jobs[w]
            => /\ users'[jobs[w].u] = users[jobs[w].u]
               /\ \A i \in 1..Len(subs') :
                    subs'[i].user = jobs[w].u
                      => i <= Len(subs) /\ subs'[i] = subs[i]
       /\ AtUserSave(w) /\ jobs'[w] = NoJob /\ users' # users
            => /\ jobs[w].ldStatus = users[jobs[w].u].status
               /\ jobs[w].ldAuto = users[jobs[w].u].autoRenew
    ]_vars

\* C12: a subscription.disable event applied to a user who was premium, and
\* a successful cancel by a user who was premium, both leave the user's
\* status cancelled.
C12_DisableAndCancelGiveCancelled ==
  /\ lastPay.outcome = "ok" /\ lastPay.u # 0 /\ lastPay.was = "premium"
  /\ \/ lastPay.op = "cancel"
     \/ lastPay.op = "webhook" /\ lastPay.type = "subscription.disable"
  => users[lastPay.u].status = "cancelled"

\* C13: an invoice.payment_failed event processed for a user who was premium
\* leaves the user's status past_due, a status the user schema can store.
C13_PaymentFailedGivesPastDue ==
  /\ lastPay.op = "webhook" /\ lastPay.type = "invoice.payment_failed"
  /\ lastPay.outcome = "ok" /\ lastPay.u # 0 /\ lastPay.was = "premium"
  => /\ users[lastPay.u].status = "past_due"
     /\ "past_due" \in Statuses

\* r reports a processed charge.success delivery
ChargeDone(r) ==
  r.op = "webhook" /\ r.type = "charge.success" /\ r.outcome = "ok"

\* C14: a processed charge.success with subscription metadata leaves a user
\* who was free, past_due or cancelled premium; one without subscription
\* metadata, or for an email no user has, changes no user's status.
C14_ChargeSuccessTransition ==
  [][/\ ChargeDone(lastPay') /\ lastPay'.sub /\ lastPay'.u # 0
          /\ lastPay'.was \in {"free", "past_due", "cancelled"}
          => users'[lastPay'.u].status = "premium"
     /\ ChargeDone(lastPay') /\ (~lastPay'.sub \/ lastPay'.u = 0)
          => \A u \in UserIds : users'[u].status = users[u].status
    ]_vars

C14_Witness ==
  /\ ChargeDone(lastPay) /\ lastPay.sub /\ lastPay.u # 0
  /\ lastPay.was = "cancelled" /\ lastPay.changed
  /\ users[lastPay.u].status = "premium"

\* the edges of the subscription transition table
TableEdges ==
  {<<"free", "premium">>, <<"premium", "cancelled">>, <<"premium", "past_due">>,
   <<"past_due", "premium">>, <<"past_due", "cancelled">>,
   <<"cancelled", "premium">>}

\* C15: every change of a user's subscription status is an edge of the
\* transition table; in particular subscription.disable leaves the status
\* of a free or cancelled user as it is.
C15_OnlyTableEdges ==
  [][\A u \in UserIds :
       users'[u].status # users[u].status
         => <<users[u].status, users'[u].status>> \in TableEdges
    ]_vars

\* C16: a step that changes a user's subscription status is a step of a
\* webhook handler or of cancelSubscription.
C16_OnlyWebhookOrCancelWrites ==
  [][(\E u \in UserIds : users'[u].status # users[u].status)
       => \E w \in Procs :
            jobs'[w] # jobs[w] /\ jobs[w].op \in {"webhook", "cancel"}
    ]_vars

\* --------------------------------------------- payment: a subscribed user
\* the subscription_code of a subscription made before the run starts
PriorCode == 0

\* the store after user 1 has subscribed once: the state subscribeUser
\* leaves (snapshot premium, one active ledger record)
InitSubscribed ==
  /\ users = [u \in UserIds |->
                IF u = 1 THEN [NewUser("pw1", 0) EXCEPT !.status = "premium"]
                ELSE NoUser]
  /\ cache = [u \in UserIds |-> NoEntry]
  /\ now = 0
  /\ procs = [p \in Procs |-> Idle]
  /\ issued = {}
  /\ loggedOut = [u \in UserIds |-> FALSE]
  /\ lastResp = NoResp
  /\ subs = <<NewSubscription(1, PriorCode)>>
  /\ nextCode = 1
  /\ markers = {}
  /\ appliedTs = [u \in UserIds |-> 0]
  /\ jobs = [w \in Procs |-> NoJob]
  /\ lastPay = NoPay
  /\ RecipeIdle

\* the operations that write the ledger: subscribeUser, cancelSubscription
\* and the delivery of subscription.disable events
NextLedger ==
  \/ \E w \in Procs, u \in UserIds, gw \in GatewayResults : SubscribeStart(w, u, gw)
  \/ \E w \in Procs, ok \in BOOLEAN : SubscribeSaveUser(w, ok)
  \/ \E w \in Procs, ok \in BOOLEAN : SubscribeCreate(w, ok)
  \/ \E w \in Procs, u \in UserIds, gw \in GatewayResults : CancelStart(w, u, gw)
  \/ \E w \in Procs, ok \in BOOLEAN : CancelSaveSub(w, ok)
  \/ \E w \in Procs : CancelLoadUser(w)
  \/ \E w \in Procs, ok \in BOOLEAN : CancelSaveUser(w, ok)
  \/ \E w \in Procs, raw \in RawBodies :
       /\ raw.ev.type = "subscription.disable"
       /\ \E signature \in SignaturesFor(raw) : WebhookReceive(w, raw, signature)
  \/ \E w \in Procs, ok \in BOOLEAN : DisableSaveSub(w, ok)
  \/ \E w \in Procs : DisableLoadUser(w)
  \/ \E w \in Procs, ok \in BOOLEAN : DisableSaveUser(w, ok)

SpecLedger == InitSubscribed /\ [][NextLedger]_vars

\* C17: no user has two active ledger records, and no step removes a ledger
\* record.
C17_OneActiveRecord ==
  /\ [](\A u \in UserIds : Cardinality(ActiveOf(u)) <= 1)
  /\ [][/\ Len(subs') >= Len(subs)
        /\ \A i \in 1..Len(subs) :
             subs'[i].user = subs[i].user /\ subs'[i].code = subs[i].code
       ]_vars

\* the event types processWebhook has a handler for
HandledTypes ==
  {"charge.success", "subscription.create", "subscription.disable",
   "invoice.payment_failed"}

\* r reports a processed delivery of an event type without a handler
UnknownDone(r) ==
  r.op = "webhook" /\ r.type \notin HandledTypes \cup {"none"}

\* C18: processing an event of a type without a handler ends successfully
\* and changes no user document and no ledger record.
C18_UnknownEventAcknowledged ==
  [][UnknownDone(lastPay')
       => lastPay'.outcome = "ok" /\ users' = users /\ subs' = subs
    ]_vars

C18_Witness ==
  /\ UnknownDone(lastPay) /\ lastPay.outcome = "ok" /\ lastPay.rawSigOk
  /\ \E ev \in markers : ev.type \notin HandledTypes

\* ------------------------------------------------- claims: login, register
\* C19: a successful login has stored the refresh token it returns, and a
\* refresh that presents that token right after the login is accepted; a
\* login that fails for its credentials answers 401 'Invalid credentials'
\* whether the identifier or the password was wrong, and a failed login
\* changes neither the session cache nor the user documents.
C19_LoginIssuesUsableTokens ==
  [][/\ lastResp'.op = "login" /\ lastResp'.res.kind = "ok"
          => /\ lastResp'.slot = lastResp'.refresh
             /\ lastResp'.refresh # NoToken
     /\ lastResp.op = "login" /\ lastResp.res.kind = "ok"
          /\ lastResp'.op = "refresh" /\ lastResp'.tok = lastResp.refresh
          => lastResp'.res.kind = "ok"
     /\ lastResp'.op = "login" /\ lastResp'.res.kind # "ok"
          => /\ users' = users /\ cache' = cache
             /\ lastResp'.res \in {Err(401, "Invalid credentials"),
                                   Err(400, "Please provide email/phone and password")}
    ]_vars

\* the users a step creates
Created == {u \in UserIds : users'[u].exists /\ ~users[u].exists}

\* C20: a step creates a user only as a register that answers 201 with a
\* token pair whose refresh token it has stored, the one new user being
\* free; a register that does not answer 201 answers with a conflict error
\* and creates nothing.
C20_RegisterCreatesOnce ==
  [][/\ Created # {}
          => /\ lastResp'.op = "register" /\ lastResp'.res = Ok(201)
             /\ Cardinality(Created) = 1
             /\ \A u \in Created : users'[u].status = "free"
             /\ lastResp'.access # NoToken /\ lastResp'.refresh # NoToken
             /\ lastResp'.slot = lastResp'.refresh
     /\ lastResp'.op = "register" /\ lastResp'.res # Ok(201)
          => /\ lastResp'.res.kind = "ErrorResponse"
             /\ lastResp'.res.status \in {400, 409}
             /\ Created = {}
    ]_vars

\* ---------------------------------------------------- claims: token checks
\* C21: protect never refuses an issued access token that is still unexpired,
\* whatever the session cache holds and whether or not its user has logged
\* out or logged in again since the token was issued.
C21_ProtectIgnoresRevocation ==
  lastResp.op = "logout" /\ lastResp.res.kind # "ok"
    => ~(lastResp.tok \in issued /\ JwtVerify(lastResp.tok, AccessSecret, now))

\* protect has let through a token issued before the completed logout of its
\* user (tokens reach the clients only with a login response, and no login
\* of that user has completed since the logout)
C21_Witness ==
  /\ lastResp.op = "protect" /\ lastResp.res.kind = "ok"
  /\ lastResp.tok \in issued
  /\ lastResp.loggedOut

\* the refresh token tok is the one the session cache holds for its user,
\* unexpired, and that user exists
CurrentSession(tok) ==
  /\ tok # NoToken /\ tok.sig = RefreshSecret
  /\ JwtVerify(tok, RefreshSecret, now)
  /\ cache[tok.id].tok = tok
  /\ users[tok.id].exists

\* C22: a refresh request leaves the session cache and the user documents
\* as they were, and a refresh presenting the token of the current session
\* is answered 200 with a new access token and no refresh token, however
\* many refreshes came before it.
C22_RefreshKeepsSession ==
  [][lastResp'.op = "refresh"
       => /\ cache' = cache /\ users' = users
          /\ CurrentSession(lastResp'.tok)
               => /\ lastResp'.res = Ok(200)
                  /\ lastResp'.access = generateAuthToken(lastResp'.tok.id, now)
                  /\ lastResp'.refresh = NoToken
    ]_vars

\* C23: a refresh request presenting a token that is expired or not signed
\* with the refresh secret is answered with the 401 authentication error,
\* with no access token, and changes no state.
C23_BadRefreshTokenIs401 ==
  [][(/\ lastResp'.op = "refresh"
      /\ lastResp'.tok # NoToken
      /\ ~JwtVerify(lastResp'.tok, RefreshSecret, now))
       => /\ IsAuthError(lastResp'.res)
          /\ lastResp'.access = NoToken
          /\ cache' = cache /\ users' = users
    ]_vars

\* C24: protect never lets a request through on a token signed as a refresh
\* token, and the refresh endpoint never answers 200 or hands out an access
\* token for a token signed as an access token.
C24_TokenKindsNotInterchangeable ==
  /\ lastResp.op \in {"protect", "logout"} /\ lastResp.tok.sig = RefreshSecret
       => lastResp.res.kind # "ok"
  /\ lastResp.op = "refresh" /\ lastResp.tok.sig = AccessSecret
       => lastResp.res.kind # "ok" /\ lastResp.access = NoToken

\* protect has refused, with 401, a refresh token that is valid as a refresh
\* token at that moment
C24_Witness ==
  /\ lastResp.op = "logout" /\ IsAuthError(lastResp.res)
  /\ lastResp.tok \in issued
  /\ JwtVerify(lastResp.tok, RefreshSecret, now)

\* ------------------------------------------------- claims: optional auth
\* C25: a request behind optionalAuth always goes on to the next handler
\* without an error, and it goes on with an authenticated user exactly when
\* it carried an access token that verifies and names an existing user, that
\* user being the one in req.user; otherwise it goes on anonymous.
C25_OptionalAuthAlwaysProceeds ==
  lastResp.op = "optionalAuth"
    => /\ lastResp.res = Ok(200)
       /\ lastResp.user # 0
            <=> /\ lastResp.tok # NoToken
                /\ JwtVerify(lastResp.tok, AccessSecret, now)
                /\ users[lastResp.tok.id].exists
       /\ lastResp.user # 0 => lastResp.user = lastResp.tok.id

\* an expired access token went through optionalAuth as anonymous
C25_Witness ==
  /\ lastResp.op = "optionalAuth" /\ lastResp.res = Ok(200)
  /\ lastResp.tok \in issued /\ lastResp.tok.sig = AccessSecret
  /\ ~JwtVerify(lastResp.tok, AccessSecret, now)
  /\ lastResp.user = 0

\* ------------------------------------- claims: account tokens, passwords
\* some user's stored verification (or reset) hash is the hash of value and
\* its expiry is still ahead
Matches(value, verification) ==
  \E u \in UserIds :
    /\ users[u].exists
    /\ IF verification
       THEN /\ users[u].emailVerificationToken = Sha256(value)
            /\ users[u].emailVerificationExpire > now
       ELSE /\ users[u].passwordResetToken = Sha256(value)
            /\ users[u].passwordResetExpire > now

\* C26: no step leaves an unhashed value in a user's emailVerificationToken
\* or passwordResetToken; verifyEmail and resetPassword answer 200 exactly
\* when the hash of the presented value is a stored hash whose expiry is
\* still ahead, and otherwise answer with a 400 error and leave the user
\* documents as they were.
C26_TokenHashOnlyAndChecked ==
  [][/\ \A u \in UserIds :
          /\ users'[u].emailVerificationToken[1] # "plain"
          /\ users'[u].passwordResetToken[1] # "plain"
     /\ lastResp'.op \in {"verifyEmail", "resetPassword"}
          => LET hit == Matches(lastResp'.value, lastResp'.op = "verifyEmail")
             IN /\ lastResp'.res = Ok(200) <=> hit
                /\ ~hit => /\ lastResp'.res.kind = "ErrorResponse"
                           /\ lastResp'.res.status = 400
                           /\ users' = users
    ]_vars

\* C27: the password path of every stored user document is the bcrypt hash
\* of a password, never a password itself.
C27_PasswordStoredHashed ==
  \A u \in UserIds :
    users[u].exists
      => \E pw \in Passwords \cup {WrongPassword} : users[u].password = Hash(pw)

\* register has just persisted a user whose password was supplied as "pw1"
C27_Witness ==
  /\ lastResp.op = "register" /\ lastResp.res.kind # "ErrorResponse"
  /\ \E u \in UserIds : users[u].exists /\ users[u].password = Hash("pw1")

C28_GatewayFailureSurfaced ==
  [][/\ \A w \in Procs : jobs'[w].gwOk
     /\ (lastPay'.op \in {"subscribe", "cancel"} /\ ~lastPay'.gwOk)
          => /\ lastPay'.outcome = "error"
             /\ lastPay'.uw = 0 /\ lastPay'.lw = 0
             /\ users' = users /\ subs' = subs
    ]_vars

\* C29: a delivery is turned away with SignatureError exactly when its
\* signature header is not the keyed hash of its raw body under the provider
\* secret: every delivery the provider signed over the bytes it sent is
\* accepted, in whichever layout its JSON is written, and no other is.
C29_SignatureOverRawBody ==
  [][lastPay'.op = "webhook"
       => (lastPay'.outcome = "SignatureError" <=> ~lastPay'.rawSigOk)
    ]_vars

\* ------------------------------------------------------ claims: identity
\* C32: a login that is answered with tokens was matched to its user through
\* an identifier the request supplied: the tokens' user has the email of the
\* request, or has a phone and the request supplied that phone.
C32_LoginMatchesSuppliedIdentifier ==
  [][\A p \in Procs :
       (procs[p].op = "login" /\ lastResp'.op = "login" /\ lastResp'.res.kind = "ok"
        /\ procs'[p] = Idle)
         => LET u == lastResp'.access.id
            IN \/ procs[p].reqEmail = u
               \/ /\ procs[p].reqPhone # NoPhone
                  /\ users[u].hasPhone /\ procs[p].reqPhone = u
    ]_vars

C34_RegisterAllOrNothing ==
  [][\A u \in Created :
       /\ lastResp'.op = "register" /\ lastResp'.res = Ok(201)
       /\ lastResp'.access = generateAuthToken(u, now)
       /\ lastResp'.refresh = generateRefreshToken(u, now)
       /\ cache'[u].tok = lastResp'.refresh
    ]_vars

C38_SaveKeepsPasswordHash ==
  [][\A u \in UserIds :
       /\ (users[u].exists /\ lastResp'.op # "resetPassword")
            => users'[u].password = users[u].password
       /\ users'[u].exists
            => \E pw \in Passwords \cup {WrongPassword} :
                 comparePassword(pw, users'[u].password)
    ]_vars

\* two logins of a user have each saved the document for lastActive, at
\* different times, and the stored password still is the hash the
\* comparison at login accepts the registered password for
C38_Witness ==
  \E u \in UserIds :
    /\ lastResp.op = "login" /\ lastResp.res.kind = "ok"
    /\ lastResp.access = generateAuthToken(u, 1)
    /\ generateRefreshToken(u, 0) \in issued
    /\ users[u].lastActive = 1
    /\ comparePassword("pw1", users[u].password)

\* C31: requireSubscription('premium') calls next() without an error exactly
\* when the status of the user protect loaded is premium or the user's role
\* is admin, and every other user gets the 403 ErrorResponse; the same holds
\* of the gate for a status past_due, which no stored document carries.
C31_GateFollowsStatusAndRole ==
  [][/\ lastResp'.op = "requireSubscription"
          => LET u == users[lastResp'.user]
                 passes == u.status = "premium" \/ u.role = "admin"
             IN /\ lastResp'.res.kind = "ok" <=> passes
                /\ ~passes => /\ lastResp'.res.kind = "ErrorResponse"
                              /\ lastResp'.res.status = 403
     /\ \A st \in Statuses \cup {"past_due"}, r \in Roles :
          LET res == requireSubscription("premium", [status |-> st, role |-> r])
          IN IF st = "premium" \/ r = "admin"
             THEN res.kind = "ok"
             ELSE res.kind = "ErrorResponse" /\ res.status = 403
    ]_vars

\* the gate refused, with a 403, an active user whose subscription was
\* cancelled, after protect had let the request through
C31_Witness ==
  /\ lastResp.op = "requireSubscription"
  /\ lastResp.res.kind = "ErrorResponse" /\ lastResp.res.status = 403
  /\ users[lastResp.user].status = "cancelled"
  /\ users[lastResp.user].role = "chef"

\* C37: protect calls next() without an error only for a token that verifies
\* under the access secret and names a stored, active user; every other
\* request (no token, a token that does not verify, a deleted user, a
\* deactivated user) is answered with an ErrorResponse and no document of the
\* store changes, so that lastActive keeps its value.
C37_ProtectPassesOnlyValidActive ==
  [][LET tok == lastResp'.tok
         passed == \/ lastResp'.op = "requireSubscription"
                   \/ lastResp'.op = "protect" /\ lastResp'.res.kind = "ok"
         valid == /\ tok # NoToken
                  /\ JwtVerify(tok, AccessSecret, now)
                  /\ users[tok.id].exists
                  /\ users[tok.id].isActive
     IN lastResp'.op \in {"protect", "requireSubscription"}
          => /\ passed <=> valid
             /\ ~passed => /\ lastResp'.res.kind = "ErrorResponse"
                           /\ lastResp'.res.status \in {401, 404}
                           /\ users' = users
    ]_vars

\* protect refused the token, valid and unexpired, of a deactivated account
\* at a time later than the account's lastActive, which kept its value
C37_Witness ==
  /\ lastResp.op = "protect"
  /\ lastResp.res = Err(401, "User account is deactivated")
  /\ JwtVerify(lastResp.tok, AccessSecret, now)
  /\ ~users[lastResp.tok.id].isActive
  /\ users[lastResp.tok.id].lastActive < now

\* C39: a getRecipe or getRecipes response that carries a premium recipe goes
\* to a requester whose subscription status is premium or whose role is
\* admin: never to an anonymous, free or cancelled requester.
C39_PremiumOnlyForPremiumOrAdmin ==
  (/\ lastRecipe.res.kind = "ok"
   /\ \E id \in lastRecipe.data : recipes[id].premium)
    => /\ lastRecipe.user # 0
       /\ lastRecipe.status = "premium" \/ lastRecipe.role = "admin"

====
